---- MODULE Spec2Model ----
(***************************************************************************)
(* Status Resolution Engine of frampol-app-be: the two status handlers of  *)
(* src/routes/downdetector.js (the handler without HTTP fallback, lines    *)
(* 1-167, and the fallback-capable handler, lines 168-402), the report     *)
(* classifier analyzeDowndetectorData, the active probe fallbackHttpCheck  *)
(* and the usage counters apiUsageStats; beside them the pre-save hook of  *)
(* the support ticket model (src/unnamed/part_000) and the pay route of    *)
(* src/routes/bills.js.                                                    *)
(*                                                                         *)
(* A handler is an async function on a single-threaded event loop: one     *)
(* action is one run of the handler from a resumption to its next await    *)
(* (or to its end).  Strings the code transforms (service names, URLs) are *)
(* sequences of one-character strings.                                     *)
(***************************************************************************)
EXTENDS Integers, Sequences, FiniteSets, TLC

VARIABLES
    downdetector,   \* TRUE iff require('downdetector-api') gave a function (l.178-185)
    apiUsageStats,  \* the process-wide counters (l.188-192 / l.15-18)
    req,            \* req[q].query: the service and url parameters of query q
    pc,             \* where query q's handler is suspended
    attempts,       \* the downdetector(service, domain) calls made for q, with outcome
    probe,          \* the probes of q: the url checked, whether and when fetch was
                    \* called, and what became of it
    res,            \* the responses written to res for q (status code and JSON body)
    now,            \* Date.now(), in milliseconds since the process started
    startTime,      \* the startTime of query q (l.219 / l.43)
    timer,          \* the abort timer of q's probe (l.342)
    payload,        \* a payload handed to analyzeDowndetectorData on its own
    verdict,        \* what analyzeDowndetectorData made of payload
    snapshot,       \* the body of the last response of GET /stats (l.388-400)
    collection,     \* the ticketNumber of every stored support ticket
    doc,            \* the ticket document of save s: isNew and its ticketNumber
    hook,           \* where the save of s is suspended, with the locals of the
                    \* pre-save hook: attempts and ticketNumber
    mockBills,      \* the bills of routes/bills.js, by id: status and paidAt
    post            \* the POST /:id/pay requests: parameters, position, response

vars == <<downdetector, apiUsageStats, req, pc, attempts, probe, res,
          now, startTime, timer, payload, verdict, snapshot,
          collection, doc, hook, mockBills, post>>

\* what only the clock, and only the classifier run on its own, change
clockVars      == <<now, startTime, timer>>
classifierVars == <<payload, verdict>>

\* what the routes other than the status route write, and all that a
\* handler of the status route leaves alone
ticketVars     == <<collection, doc, hook>>
billVars       == <<mockBills, post>>
otherRouteVars == <<snapshot, ticketVars, billVars>>
outsideVars    == <<classifierVars, otherRouteVars>>

----------------------------------------------------------------------------
(* Bounds of the model *)

MaxQueries == 2
MaxTicks   == 3
MaxTimedQueries == 1
MaxStatsQueries == 3

Queries == 1..MaxQueries
TimedQueries == 1..MaxTimedQueries
StatsQueries == 1..MaxStatsQueries

\* the queries of all specifications
QueryIds == Queries \union TimedQueries \union StatsQueries

----------------------------------------------------------------------------
(* JavaScript values *)

Undefined == [kind |-> "undefined"]
StrVal(s) == [kind |-> "string", chars |-> s]

\* !x for the values a query parameter can hold: undefined and "" are falsy
Falsy(v) == v.kind = "undefined" \/ (v.kind = "string" /\ v.chars = <<>>)

UpperCase == <<"A","B","C","D","E","F","G","H","I","J","K","L","M",
               "N","O","P","Q","R","S","T","U","V","W","X","Y","Z">>
LowerCase == <<"a","b","c","d","e","f","g","h","i","j","k","l","m",
               "n","o","p","q","r","s","t","u","v","w","x","y","z">>

\* String.prototype.toLowerCase, character by character
LowerChar(c) ==
    IF \E i \in DOMAIN UpperCase : UpperCase[i] = c
    THEN LowerCase[CHOOSE i \in DOMAIN UpperCase : UpperCase[i] = c]
    ELSE c

toLowerCase(s) == [i \in DOMAIN s |-> LowerChar(s[i])]

----------------------------------------------------------------------------
(* URLs: new URL(url) of the probe, and the canonical URL of a service *)

Chars_https == <<"h","t","t","p","s",":","/","/">>
Chars_http  == <<"h","t","t","p",":","/","/">>
Chars_com   == <<".","c","o","m">>

HasPrefix(s, p) == Len(s) >= Len(p) /\ SubSeq(s, 1, Len(p)) = p

\* characters the URL parser refuses in the host of an http(s) URL
ForbiddenHostChars == {" ", "<", ">", "[", "]", "^", "|", "%"}

\* the host of an http(s) URL string: what follows the scheme up to the
\* first "/", "?" or "#"
HostOf(s, p) ==
    LET rest == SubSeq(s, Len(p) + 1, Len(s))
        stops == {i \in DOMAIN rest : rest[i] \in {"/", "?", "#"}}
        end == IF stops = {} THEN Len(rest)
               ELSE (CHOOSE i \in stops : \A j \in stops : i <= j) - 1
    IN  SubSeq(rest, 1, end)

\* the URL is not validated
ValidURL_Unchecked(s) == TRUE

\* new URL(url) does not throw: an absolute http(s) URL with a non-empty
\* host free of forbidden characters (the only schemes of the model's URLs)
ValidURL(s) ==
    \E p \in {Chars_https, Chars_http} :
        /\ HasPrefix(s, p)
        /\ HostOf(s, p) # <<>>
        /\ \A i \in DOMAIN HostOf(s, p) : HostOf(s, p)[i] \notin ForbiddenHostChars

\* `https://${service.toLowerCase()}.com`
CanonicalUrl(service) == Chars_https \o toLowerCase(service) \o Chars_com

----------------------------------------------------------------------------
(* analyzeDowndetectorData: the report classifier *)

\* values of the payload the crowd-sourced source resolves with
Absent        == [kind |-> "absent"]                 \* property not there
NotArray      == [kind |-> "other"]                  \* a truthy non-array value without
                                                     \* a slice method: a number, an object
Arr(items)    == [kind |-> "array", items |-> items]
Point(n)      == [kind |-> "point", value |-> n]     \* {date, value: n}
NullPoint     == [kind |-> "null"]                   \* a null array element
NoValuePoint  == [kind |-> "novalue"]                \* {date}: value is undefined
TextPoint     == [kind |-> "text"]                   \* {date, value: 'n/a'}
Obj(r, b)     == [kind |-> "object", reports |-> r, baseline |-> b]

RecentWindow == 5
DownRatio        == 10
DegradedRatio    == 3

\* recentBaseline.length > 0 ? ... : 1
EmptyBaselineMean == 1

\* the whole array is kept
slice_Whole(items, n) == items

\* array.slice(-5)
slice(items, n) ==
    IF Len(items) <= n THEN items ELSE SubSeq(items, Len(items) - n + 1, Len(items))

RECURSIVE SumValues(_)
\* reduce((sum, report) => sum + report.value, 0)
SumValues(items) ==
    IF items = <<>> THEN 0
    ELSE SumValues(SubSeq(items, 1, Len(items) - 1)) + items[Len(items)].value

\* report.value throws a TypeError on a null element
ReduceThrows(items) == \E i \in DOMAIN items : items[i].kind = "null"

\* sum + undefined is NaN; sum + 'n/a' is a string that no later addend
\* makes numeric, and its division by the length is NaN
MeanIsNaN(items) == \E i \in DOMAIN items : items[i].kind \in {"novalue", "text"}

----------------------------------------------------------------------------
(* The divisions of the classifier are IEEE-754 double divisions, each       *)
(* rounded to 53 significant bits, to nearest, ties to even.  A mantissa and *)
(* the products compared below exceed 31 bits: they are numerals in base     *)
(* 2^LimbBits, least significant limb first.                                 *)

MantissaBits == 53
LimbBits     == 10

RECURSIVE Pow2(_)
Pow2(k) == IF k = 0 THEN 1 ELSE 2 * Pow2(k - 1)

Base == Pow2(LimbBits)

RECURSIVE AddNum(_, _, _)
\* x + y + carry
AddNum(x, y, c) ==
    IF x = <<>> /\ y = <<>> THEN (IF c = 0 THEN <<>> ELSE <<c>>)
    ELSE LET a == IF x = <<>> THEN 0 ELSE Head(x)
             b == IF y = <<>> THEN 0 ELSE Head(y)
             t == a + b + c
         IN  <<t % Base>> \o AddNum(IF x = <<>> THEN x ELSE Tail(x),
                                    IF y = <<>> THEN y ELSE Tail(y), t \div Base)

RECURSIVE MulLimb(_, _, _)
\* x * d + carry for a single limb d
MulLimb(x, d, c) ==
    IF x = <<>> THEN (IF c = 0 THEN <<>> ELSE <<c>>)
    ELSE LET t == Head(x) * d + c
         IN  <<t % Base>> \o MulLimb(Tail(x), d, t \div Base)

\* x * Base^k
ShiftLimbs(x, k) == [i \in 1..k |-> 0] \o x

\* x * 2^k
Shl(x, k) == ShiftLimbs(MulLimb(x, Pow2(k % LimbBits), 0), k \div LimbBits)

RECURSIVE TimesFrom(_, _, _)
\* the sum of y * x[j] * Base^(j-1) over the limbs j >= i of x
TimesFrom(x, y, i) ==
    IF i > Len(x) THEN <<>>
    ELSE AddNum(ShiftLimbs(MulLimb(y, x[i], 0), i - 1), TimesFrom(x, y, i + 1), 0)

\* x * y
TimesNum(x, y) == TimesFrom(x, y, 1)

RECURSIVE Trim(_)
\* without its leading zero limbs
Trim(x) == IF x # <<>> /\ x[Len(x)] = 0 THEN Trim(SubSeq(x, 1, Len(x) - 1)) ELSE x

RECURSIVE GreaterSameLen(_, _)
GreaterSameLen(x, y) ==
    IF x = <<>> THEN FALSE
    ELSE IF x[Len(x)] # y[Len(y)] THEN x[Len(x)] > y[Len(y)]
    ELSE GreaterSameLen(SubSeq(x, 1, Len(x) - 1), SubSeq(y, 1, Len(y) - 1))

\* x > y
GreaterNum(x, y) ==
    LET a == Trim(x)
        b == Trim(y)
    IN  IF Len(a) # Len(b) THEN Len(a) > Len(b) ELSE GreaterSameLen(a, b)

RECURSIVE BitsOf(_)
\* the bits of a natural number, most significant first
BitsOf(n) == IF n = 0 THEN <<>> ELSE Append(BitsOf(n \div 2), n % 2)

RECURSIVE BitsValue(_)
\* the number written by at most LimbBits bits, most significant first
BitsValue(bits) ==
    IF bits = <<>> THEN 0
    ELSE 2 * BitsValue(SubSeq(bits, 1, Len(bits) - 1)) + bits[Len(bits)]

\* the numeral of a sequence of bits, most significant first
NumOfBits(bits) ==
    LET n == Len(bits)
        limbs == (n + LimbBits - 1) \div LimbBits
        from(i) == IF n - LimbBits * i + 1 < 1 THEN 1 ELSE n - LimbBits * i + 1
    IN  [i \in 1..limbs |-> BitsValue(SubSeq(bits, from(i), n - LimbBits * (i - 1)))]

RECURSIVE Quotient(_, _, _, _)
\* the long division rem / n continued until bits holds MantissaBits + 1
\* significant bits, f of them after the binary point: [bits, rem, f]
Quotient(bits, rem, n, f) ==
    IF Len(bits) = MantissaBits + 1 THEN [bits |-> bits, rem |-> rem, f |-> f]
    ELSE LET b == (2 * rem) \div n
         IN  Quotient(IF bits = <<>> /\ b = 0 THEN bits ELSE Append(bits, b),
                      (2 * rem) % n, n, f + 1)

\* the double nearest to a / n for integers a > 0, n > 0, as [m, e]: the
\* value is m * 2^e with 2^(MantissaBits-1) <= m < 2^MantissaBits
DivideInts(a, n) ==
    LET q == Quotient(BitsOf(a \div n), a % n, n, 0)
        kept == NumOfBits(SubSeq(q.bits, 1, MantissaBits))
        guard == q.bits[MantissaBits + 1]
        up == guard = 1 /\ (q.rem # 0 \/ q.bits[MantissaBits] = 1)
        m == IF up THEN AddNum(kept, <<1>>, 0) ELSE kept
        top == Shl(<<1>>, MantissaBits)
    IN  IF Trim(m) = Trim(top)
        THEN [m |-> Shl(<<1>>, MantissaBits - 1), e |-> 2 - q.f]
        ELSE [m |-> m, e |-> 1 - q.f]

\* the exponent j of the integer t >= 1: 2^j <= t < 2^(j+1)
Exponent(t) == Len(BitsOf(t)) - 1

\* x / y > t for doubles x = [m, e], y = [m, e] and an integer t >= 1: the
\* quotient rounds to a double above t iff it exceeds t + ulp(t) / 2, the
\* tie going to t, whose mantissa is even
QuotientExceeds(x, y, t) ==
    LET k == MantissaBits - Exponent(t)                      \* ulp(t) / 2 = 2^-k
        bound == AddNum(Shl(NumOfBits(BitsOf(t)), k), <<1>>, 0)  \* (t + 2^-k) * 2^k
        \* x.m * 2^(x.e + k) > bound * y.m * 2^y.e
        d == x.e + k - y.e
        lhs == IF d >= 0 THEN Shl(x.m, d) ELSE x.m
        prod == TimesNum(bound, y.m)
        rhs == IF d >= 0 THEN prod ELSE Shl(prod, 0 - d)
    IN  GreaterNum(lhs, rhs)

Abs(n) == IF n < 0 THEN 0 - n ELSE n

\* (sumR / lenR) / avgBaseline > t, avgBaseline = sumB / lenB, or
\* EmptyBaselineMean when lenB = 0.  A zero baseline mean gives Infinity (> t) for a positive report
\* mean, NaN (never > t) for a zero one and -Infinity for a negative one.
\* An exact ratio other than t is at least 2^-31 away from t in relative
\* terms and the three roundings move the computed ratio by less than 2^-50:
\* the exact comparison decides.  A ratio of exactly t is decided by the
\* rounded divisions.
RatioExceeds(sumR, lenR, sumB, lenB, t) ==
    IF lenB = 0 THEN sumR > t * lenR * EmptyBaselineMean
    ELSE IF sumB = 0 THEN sumR > 0
    ELSE IF (sumR > 0) # (sumB > 0) \/ sumR = 0 THEN FALSE
    ELSE IF Abs(sumR) * lenB # t * Abs(sumB) * lenR
         THEN Abs(sumR) * lenB > t * Abs(sumB) * lenR
    ELSE QuotientExceeds(DivideInts(Abs(sumR), lenR), DivideInts(Abs(sumB), lenB), t)

Threw == "TypeError"

\* error.message of the TypeError analyzeDowndetectorData(data) throws
ThrowMessage(data) ==
    IF data.baseline.kind = "other" THEN "baseline.slice is not a function"
    ELSE "Cannot read properties of null (reading 'value')"

analyzeDowndetectorData(data) ==
    IF data.kind # "object" THEN "up"
    ELSE IF data.reports.kind # "array" THEN "up"
    ELSE IF data.baseline.kind = "other" THEN Threw
    ELSE
      LET reports == data.reports.items
          baseline == IF data.baseline.kind = "array" THEN data.baseline.items ELSE <<>>
          recentReports == slice(reports, RecentWindow)
          recentBaseline == slice(baseline, RecentWindow)
      IN  IF Len(recentReports) = 0 THEN "up"
          ELSE IF ReduceThrows(recentReports) THEN Threw
          ELSE IF ReduceThrows(recentBaseline) THEN Threw
          \* a NaN ratio exceeds no threshold
          ELSE IF MeanIsNaN(recentReports) \/ MeanIsNaN(recentBaseline) THEN "up"
          ELSE
            LET sumR == SumValues(recentReports)
                sumB == SumValues(recentBaseline)
                lenR == Len(recentReports)
                lenB == Len(recentBaseline)
            IN  IF RatioExceeds(sumR, lenR, sumB, lenB, DownRatio) THEN "down"
                ELSE IF RatioExceeds(sumR, lenR, sumB, lenB, DegradedRatio) THEN "degraded"
                ELSE "up"

----------------------------------------------------------------------------
(* Inputs: what a caller, the crowd-sourced source and a probed host can send *)

Service_Gh == StrVal(<<"G", "h">>)
Service_ab == StrVal(<<"a", " ", "b">>)       \* a name with a space in it
Url_ok     == StrVal(Chars_https \o <<"x", ".", "i", "o">>)
Url_bad    == StrVal(<<"x">>)                  \* no scheme: new URL throws

Services == {Undefined, StrVal(<<>>), Service_Gh, Service_ab}
Urls     == {Undefined, StrVal(<<>>), Url_ok, Url_bad}

Payload_up       == Obj(Arr(<<Point(1)>>), Arr(<<Point(1)>>))
Payload_degraded == Obj(Arr(<<Point(5)>>), Absent)
Payload_down     == Obj(Arr(<<Point(50)>>), Arr(<<Point(2)>>))
Payload_null     == Obj(Arr(<<NullPoint>>), Absent)      \* reports: [null]

Payloads == {Undefined, Obj(Absent, Absent), Payload_up, Payload_degraded,
             Payload_down, Payload_null}

HttpStatuses == {200, 299, 300, 503}

\* error.message of a fetch that rejects: a transport error, and the abort
\* of controller.abort()
TransportErrors == {"fetch failed"}
AbortMessage    == "This operation was aborted"
FetchErrors     == TransportErrors \union {AbortMessage}

----------------------------------------------------------------------------
(* The usage counters *)

\* apiUsageStats.totalRequests++
RecordRequest(stats) == [stats EXCEPT !.totalRequests = @ + 1]

\* a primary answer is counted twice
RecordPrimary_Twice(stats) == [stats EXCEPT !.downdetectorApi = @ + 2]

\* apiUsageStats.downdetectorApi++
RecordPrimary(stats) == [stats EXCEPT !.downdetectorApi = @ + 1]

\* the fallback hit goes uncounted
RecordFallback_Forgotten(stats) == stats

\* apiUsageStats.httpFallback++
RecordFallback(stats) == [stats EXCEPT !.httpFallback = @ + 1]

\* the failed query stays counted
UndoRequest_Skipped(stats) == stats

\* apiUsageStats.totalRequests-- of the handler without HTTP fallback
UndoRequest(stats) == [stats EXCEPT !.totalRequests = @ - 1]

----------------------------------------------------------------------------
(* Support tickets: the pre-save hook that numbers a new ticket            *)
(* (supportTicketSchema.pre('save'), l.92-122) and the insert that         *)
(* follows it under the unique index on ticketNumber (l.9-13).  A ticket   *)
(* number is the sequence of its characters; <<>> is a ticketNumber not    *)
(* set.                                                                    *)

\* all that a save of a ticket leaves alone
statusRouteVars == <<downdetector, apiUsageStats, req, pc, attempts, probe, res,
                     clockVars>>

MaxSaves == 2
Saves    == 1..MaxSaves

maxAttempts == 10

PadLength   == 6
StampLength == 6

Unset == <<>>

Digit == <<"0","1","2","3","4","5","6","7","8","9">>

\* String(n) for a natural number: its decimal digits
RECURSIVE String(_)
String(n) ==
    IF n < 10 THEN <<Digit[n + 1]>>
    ELSE String(n \div 10) \o <<Digit[(n % 10) + 1]>>

\* String.prototype.padStart with a one-character padString
RECURSIVE padStart(_, _, _)
padStart(s, targetLength, padString) ==
    IF Len(s) >= targetLength THEN s
    ELSE padStart(<<padString>> \o s, targetLength, padString)

\* s.slice(-n): the last n characters, all of them when s is shorter
sliceLast(s, n) ==
    IF Len(s) <= n THEN s ELSE SubSeq(s, Len(s) - n + 1, Len(s))

Chars_FR == <<"F","R","-">>

\* `FR-${String(count + 1 + attempts).padStart(6, '0')}` (l.102)
CountedNumber(count, tries) ==
    Chars_FR \o padStart(String(count + 1 + tries), PadLength, "0")

\* `FR-${Date.now().toString().slice(-6)}` (l.115); ms is Date.now().toString()
StampedNumber(ms) == Chars_FR \o sliceLast(ms, StampLength)

\* Date.now().toString() at two instants of 2026
Timestamps ==
    { <<"1","7","9","3","3","1","8","4","0","0","1","2","3">>,
      <<"1","7","9","3","3","1","8","4","6","0","4","5","6">> }

\* the tickets numbered from..to, as the hook numbered them
Numbered(from, to) == {CountedNumber(n - 1, 0) : n \in from..to}

\* the collection before the saves: empty, or twenty tickets numbered in
\* turn of which the first ten were deleted since
InitialCollections == {{}, Numbered(maxAttempts + 1, 2 * maxAttempts)}

\* the ticketNumber the caller set on the document: none, or FR-000002
GivenNumbers == {Unset, CountedNumber(1, 0)}

NoDoc    == [isNew |-> FALSE, ticketNumber |-> Unset]
IdleHook == [pc |-> "idle", attempts |-> 0, ticketNumber |-> Unset, error |-> "none"]

\* countDocuments() (l.101)
countDocuments(stored) == Cardinality(stored)

\* findOne({ ticketNumber }) (l.106): TRUE iff a document is found
findOne(stored, ticketNumber) == ticketNumber \in stored

\* document.save() is called: the hook runs to its first await (l.93-101),
\* or calls next() at once when the document is not new or has a number
\* (l.93, l.121).  A document that is not new is one of the collection.
Save(s, isNew, given) ==
    /\ hook[s].pc = "idle"
    /\ \A p \in 1..(s - 1) : hook[p].pc # "idle"
    /\ ~isNew => given \in collection
    /\ doc' = [doc EXCEPT ![s] = [isNew |-> isNew, ticketNumber |-> given]]
    /\ hook' = [hook EXCEPT ![s].pc =
                   IF isNew /\ given = Unset THEN "count"
                   ELSE IF isNew THEN "insert" ELSE "update"]
    /\ UNCHANGED <<collection, statusRouteVars, classifierVars, snapshot, billVars>>

\* countDocuments resolves: the candidate is made and attempts counted
\* (l.101-103), then findOne is awaited (l.106)
CountResolves(s) ==
    /\ hook[s].pc = "count"
    /\ hook' = [hook EXCEPT ![s].ticketNumber =
                                CountedNumber(countDocuments(collection), hook[s].attempts),
                            ![s].attempts = @ + 1,
                            ![s].pc = "find"]
    /\ UNCHANGED <<collection, doc, statusRouteVars, classifierVars, snapshot, billVars>>

\* findOne resolves (l.106-116, l.121): a free candidate is taken; a taken
\* one sends the loop round again while attempts < maxAttempts; after that
\* the number is made of Date.now(), whose digits are ms
FindResolves(s, ms) ==
    /\ hook[s].pc = "find"
    /\ IF ~findOne(collection, hook[s].ticketNumber)
       THEN /\ doc' = [doc EXCEPT ![s].ticketNumber = hook[s].ticketNumber]
            /\ hook' = [hook EXCEPT ![s].pc = "insert"]
       ELSE IF hook[s].attempts < maxAttempts
       THEN /\ hook' = [hook EXCEPT ![s].pc = "count"]
            /\ UNCHANGED doc
       ELSE /\ doc' = [doc EXCEPT ![s].ticketNumber = StampedNumber(ms)]
            /\ hook' = [hook EXCEPT ![s].pc = "insert"]
    /\ UNCHANGED <<collection, statusRouteVars, classifierVars, snapshot, billVars>>

\* countDocuments or findOne rejects: next(error) (l.117-119), save() fails
QueryRejects(s) ==
    /\ hook[s].pc \in {"count", "find"}
    /\ hook' = [hook EXCEPT ![s].pc = "failed", ![s].error = "query"]
    /\ UNCHANGED <<collection, doc, statusRouteVars, classifierVars, snapshot, billVars>>

\* the insert after the hook: the unique index (l.11) refuses a ticketNumber
\* that is stored already, and save() fails with a duplicate key error
Insert(s) ==
    /\ hook[s].pc = "insert"
    /\ IF doc[s].ticketNumber \in collection
       THEN /\ hook' = [hook EXCEPT ![s].pc = "failed", ![s].error = "E11000"]
            /\ UNCHANGED collection
       ELSE /\ collection' = collection \union {doc[s].ticketNumber}
            /\ hook' = [hook EXCEPT ![s].pc = "saved"]
    /\ UNCHANGED <<doc, statusRouteVars, classifierVars, snapshot, billVars>>

\* the update of a document that is not new: its number stays
Update(s) ==
    /\ hook[s].pc = "update"
    /\ hook' = [hook EXCEPT ![s].pc = "saved"]
    /\ UNCHANGED <<collection, doc, statusRouteVars, classifierVars, snapshot, billVars>>

\* no save under way, the collection holding stored
TicketsAtStart(stored) ==
    /\ collection = stored
    /\ doc = [s \in Saves |-> NoDoc]
    /\ hook = [s \in Saves |-> IdleHook]

----------------------------------------------------------------------------
(* Bills: POST /:id/pay of routes/bills.js (l.100-170).  The handler has   *)
(* no await: from validationResult to res.json it is one turn of the event *)
(* loop.  An amount is held in cents.                                      *)

MaxPayments == 2
Payments    == 1..MaxPayments

\* a date the source writes as text, and new Date().toISOString() at ms
DateText(text)  == [kind |-> "date", text |-> text]
toISOString(ms) == [kind |-> "instant", ms |-> ms]

\* mockBills as the module is loaded (l.8-30): the fields the route writes
BillsAtLoad ==
    [id \in {"1", "2"} |->
        IF id = "1" THEN [status |-> "paid", paidAt |-> DateText("2024-01-10")]
        ELSE [status |-> "pending", paidAt |-> Undefined]]

PaymentMethods == {"ecocash", "paynow", "bank_transfer", "cash"}

MinReference == 3

\* the validation chain (l.101-111): paymentMethod is one of the four,
\* amount is a float of at least 0.01, reference (trimmed) when present has
\* three characters or more
validationResult(body) ==
    /\ body.paymentMethod \in PaymentMethods
    /\ body.amount >= 1
    /\ body.reference.kind = "string" => Len(body.reference.chars) >= MinReference

Body(paymentMethod, amount, reference) ==
    [paymentMethod |-> paymentMethod, amount |-> amount, reference |-> reference]

Body_ok == Body("ecocash", 4500, Undefined)

\* a body that passes, and bodies with a method not allowed, an amount of
\* 0, a reference of two characters
Bodies ==
    { Body_ok,
      Body("card", 4500, Undefined),
      Body("cash", 0, StrVal(<<"R","E","F","7">>)),
      Body("paynow", 4500, StrVal(<<"R","7">>)) }

BillIds == {"1", "2", "3"}

NoPost == [pc |-> "idle", id |-> "", body |-> Body_ok, res |-> <<>>]

\* mockBills.find(b => b.id === req.params.id) finds a bill (l.123-125)
Found(bills, id) == id \in DOMAIN bills

\* bill.status === 'paid' (l.132)
AlreadyPaid_Never(bill) == FALSE

AlreadyPaid(bill) == bill.status = "paid"

\* the payment object (l.142-151), but for userId, which protect provides
Payment(id, body, ms) ==
    [id            |-> [prefix |-> "PAY-", ms |-> ms],
     billId        |-> id,
     amount        |-> body.amount,
     paymentMethod |-> body.paymentMethod,
     reference     |-> IF Falsy(body.reference) THEN [prefix |-> "REF-", ms |-> ms]
                       ELSE body.reference,
     status        |-> "completed",
     processedAt   |-> toISOString(ms)]

\* bill.status = 'paid'; bill.paidAt = new Date().toISOString() (l.154-155)
MarkPaid(bill, ms) == [bill EXCEPT !.status = "paid", !.paidAt = toISOString(ms)]

BillError(message) == [status |-> "error", message |-> message]

\* a request reaches the route and goes through protect and the validation
\* chain (l.100-112)
Post(p, id, body) ==
    /\ post[p].pc = "idle"
    /\ \A o \in 1..(p - 1) : post[o].pc # "idle"
    /\ post' = [post EXCEPT ![p] = [pc |-> "handler", id |-> id, body |-> body,
                                    res |-> <<>>]]
    /\ UNCHANGED <<mockBills, statusRouteVars, classifierVars, snapshot, ticketVars>>

\* the handler (l.112-170)
Pay(p) ==
    /\ post[p].pc = "handler"
    /\ LET id == post[p].id
           body == post[p].body
           answer(code, json) ==
               post' = [post EXCEPT ![p].pc = "done",
                                    ![p].res = <<[code |-> code, body |-> json]>>]
       IN  IF ~validationResult(body)
           THEN /\ answer(400, BillError("Validation failed"))
                /\ UNCHANGED mockBills
           ELSE IF ~Found(mockBills, id)
           THEN /\ answer(404, BillError("Bill not found"))
                /\ UNCHANGED mockBills
           ELSE IF AlreadyPaid(mockBills[id])
           THEN /\ answer(400, BillError("Bill has already been paid"))
                /\ UNCHANGED mockBills
           ELSE /\ mockBills' = [mockBills EXCEPT ![id] = MarkPaid(@, now)]
                /\ answer(200, [status  |-> "success",
                                message |-> "Payment processed successfully",
                                payment |-> Payment(id, body, now),
                                bill    |-> MarkPaid(mockBills[id], now)])
    /\ UNCHANGED <<statusRouteVars, classifierVars, snapshot, ticketVars>>

\* no pay request yet
BillsAtStart ==
    /\ mockBills = BillsAtLoad
    /\ post = [p \in Payments |-> NoPost]

----------------------------------------------------------------------------
(* The other routes before their first request *)

\* GET /stats has not answered yet
NoSnapshot == [kind |-> "none"]

QuietElsewhere ==
    /\ snapshot = NoSnapshot
    /\ TicketsAtStart({})
    /\ BillsAtStart

----------------------------------------------------------------------------
(* The fallback-capable handler, src/routes/downdetector.js l.205-385 *)

\* the regional domain is tried first
Domains_RegionalFirst == <<"it", "com">>

\* the domains tried in order: downdetector(service), downdetector(service, 'it')
Domains == <<"com", "it">>

DomainIndex(doms, d) == CHOOSE i \in DOMAIN doms : doms[i] = d

\* only a missing parameter is refused, an empty one is let through
MissingService_UndefinedOnly(service) == service.kind = "undefined"

\* if (!service)
MissingService(service) == Falsy(service)

\* the url parameter is ignored
UrlGiven_Never(url) == FALSE

\* if (url)
UrlGiven(url) == ~Falsy(url)

\* the availability of the integration is not checked
ApiUnavailable_Unchecked == FALSE

\* if (!downdetector)
ApiUnavailable == ~downdetector

\* res.status(code).json(body)
Send(q, code, body) ==
    res' = [res EXCEPT ![q] = Append(@, [code |-> code, body |-> body])]

\* setTimeout(() => controller.abort(), 10000)
ProbeTimeoutMs == 10000

NoTimer == [armed |-> FALSE, deadline |-> 0]

\* the timestamp property of every envelope, new Date().toISOString(), is
\* left out of the envelopes below

\* a 300 still counts as reachable
ProbeBody_Through300(url, httpStatus, responseTime) ==
    [status     |-> IF httpStatus >= 200 /\ httpStatus <= 300 THEN "up" ELSE "down",
     responseTime |-> responseTime,
     httpStatus |-> httpStatus,
     url        |-> url,
     fallback   |-> TRUE,
     dataSource |-> "http-fallback"]

\* the 200 envelope of a probe that got an HTTP response
ProbeBody(url, httpStatus, responseTime) ==
    [status     |-> IF httpStatus >= 200 /\ httpStatus < 300 THEN "up" ELSE "down",
     responseTime |-> responseTime,
     httpStatus |-> httpStatus,
     url        |-> url,
     fallback   |-> TRUE,
     dataSource |-> "http-fallback"]

\* the underlying message is replaced by a fixed one
ProbeFailedBody_Generic(url, message) ==
    [status     |-> "down",
     responseTime |-> 0,
     error      |-> "Probe failed",
     url        |-> url,
     fallback   |-> TRUE,
     dataSource |-> "http-fallback"]

\* the 200 envelope of a probe that threw
ProbeFailedBody(url, message) ==
    [status     |-> "down",
     responseTime |-> 0,
     error      |-> message,
     url        |-> url,
     fallback   |-> TRUE,
     dataSource |-> "http-fallback"]

\* the 200 envelope of the primary path; res.json serialises with
\* JSON.stringify, which leaves out a property whose value is undefined
PrimaryBody(status, responseTime, service, response) ==
    IF response.kind = "undefined"
    THEN [status |-> status, responseTime |-> responseTime, serviceName |-> service,
          dataSource |-> "downdetector-api"]
    ELSE [status |-> status, responseTime |-> responseTime, serviceName |-> service,
          downdetectorData |-> response, dataSource |-> "downdetector-api"]

\* what became of the probe: new URL(url) threw, fetch is awaited, fetch
\* resolved with an HTTP status, fetch rejected with a message
Outcome_Invalid           == [kind |-> "invalid"]
Outcome_Pending           == [kind |-> "pending"]
Outcome_Response(status)  == [kind |-> "response", status |-> status]
Outcome_Error(message)    == [kind |-> "error", message |-> message]

\* no timer is set
SetTimeout_Never(t) == NoTimer

\* setTimeout(() => controller.abort(), 10000) at time t
SetTimeout(t) == [armed |-> TRUE, deadline |-> t + ProbeTimeoutMs]

\* the probe of q settles
SettleProbe(q, outcome) ==
    [probe EXCEPT ![q][Len(probe[q])].outcome = outcome]

\* fallbackHttpCheck(req, res, url, startTime) up to its await of fetch, or to
\* its end when it answers at once; stats are the counters as the caller
\* left them
FallbackStart(q, url, stats) ==
    IF Falsy(url) THEN
        /\ Send(q, 400, [error |-> "URL parameter is required for fallback check"])
        /\ pc' = [pc EXCEPT ![q] = "done"]
        /\ apiUsageStats' = stats
        /\ UNCHANGED <<probe, timer>>
    ELSE IF ~ValidURL(url.chars) THEN
        /\ apiUsageStats' = RecordFallback(stats)
        /\ Send(q, 200, ProbeFailedBody(url.chars, "Invalid URL"))
        /\ pc' = [pc EXCEPT ![q] = "done"]
        /\ probe' = [probe EXCEPT ![q] = Append(@, [url |-> url.chars, fetched |-> FALSE,
                                                    at |-> now, outcome |-> Outcome_Invalid])]
        /\ UNCHANGED timer
    ELSE
        /\ apiUsageStats' = stats
        /\ pc' = [pc EXCEPT ![q] = "fetch"]
        /\ probe' = [probe EXCEPT ![q] = Append(@, [url |-> url.chars, fetched |-> TRUE,
                                                    at |-> now, outcome |-> Outcome_Pending])]
        /\ timer' = [timer EXCEPT ![q] = SetTimeout(now)]
        /\ UNCHANGED res

\* await downdetector(service, domain) is reached
Attempt(q, domain) ==
    /\ attempts' = [attempts EXCEPT ![q] = Append(@, [domain |-> domain, outcome |-> "pending"])]
    /\ pc' = [pc EXCEPT ![q] = domain]

\* the awaited downdetector call of q settles
Settle(q, outcome) ==
    [attempts EXCEPT ![q][Len(attempts[q])].outcome = outcome]

\* queries arrive in the order of their numbers
Arrives(q) == pc[q] = "idle" /\ \A p \in 1..(q - 1) : pc[p] # "idle"

\* router.get('/'): from the request to the first await, or to the response
Get(q, service, url) ==
    /\ Arrives(q)
    /\ req' = [req EXCEPT ![q] = [service |-> service, url |-> url]]
    /\ UNCHANGED <<downdetector, now, outsideVars>>
    /\ IF MissingService(service) THEN
          /\ Send(q, 400, [error |-> "Service name parameter is required"])
          /\ pc' = [pc EXCEPT ![q] = "done"]
          /\ UNCHANGED <<apiUsageStats, attempts, probe, startTime, timer>>
       ELSE IF UrlGiven(url) THEN
          /\ startTime' = [startTime EXCEPT ![q] = now]
          /\ FallbackStart(q, url, RecordRequest(apiUsageStats))
          /\ UNCHANGED attempts
       ELSE IF ApiUnavailable THEN
          /\ startTime' = [startTime EXCEPT ![q] = now]
          /\ FallbackStart(q, StrVal(CanonicalUrl(service.chars)), RecordRequest(apiUsageStats))
          /\ UNCHANGED attempts
       ELSE
          /\ startTime' = [startTime EXCEPT ![q] = now]
          /\ apiUsageStats' = RecordRequest(apiUsageStats)
          /\ Attempt(q, Domains[1])
          /\ UNCHANGED <<probe, res, timer>>

\* the awaited downdetector call resolves with data: classification and the
\* primary response.  When the classifier throws, the outer catch runs
\* fallbackHttpCheck(req, res, url, startTime) with startTime declared by
\* const inside the try block, out of scope in the catch block: evaluating
\* it throws a ReferenceError and the handler's promise rejects with no
\* response written and no counter touched.
DowndetectorResolves(q, response) ==
    /\ pc[q] \in {Domains[i] : i \in DOMAIN Domains}
    /\ attempts' = Settle(q, "resolved")
    /\ UNCHANGED <<downdetector, req, probe, clockVars, outsideVars>>
    /\ LET status == analyzeDowndetectorData(response)
       IN  IF status = Threw THEN
              /\ pc' = [pc EXCEPT ![q] = "rejected"]
              /\ UNCHANGED <<apiUsageStats, res>>
           ELSE
              /\ apiUsageStats' = RecordPrimary(apiUsageStats)
              /\ Send(q, 200, PrimaryBody(status, now - startTime[q],
                                          req[q].service.chars, response))
              /\ pc' = [pc EXCEPT ![q] = "done"]

\* the first failed domain already falls back
CascadeExhausted_AfterFirst(i) == i >= 1

\* the catch that falls back: the one of the last domain of the cascade
CascadeExhausted(i) == i = Len(Domains)

\* the awaited downdetector call rejects: the next domain, or the probe of
\* the canonical URL after the last one
DowndetectorRejects(q) ==
    /\ pc[q] \in {Domains[i] : i \in DOMAIN Domains}
    /\ UNCHANGED <<downdetector, req, now, startTime, outsideVars>>
    /\ LET i == DomainIndex(Domains, pc[q])
       IN  IF ~CascadeExhausted(i) THEN
              /\ attempts' = [Settle(q, "rejected") EXCEPT ![q] =
                                 Append(@, [domain |-> Domains[i + 1], outcome |-> "pending"])]
              /\ pc' = [pc EXCEPT ![q] = Domains[i + 1]]
              /\ UNCHANGED <<apiUsageStats, probe, res, timer>>
           ELSE
              /\ attempts' = Settle(q, "rejected")
              /\ FallbackStart(q, StrVal(CanonicalUrl(req[q].service.chars)), apiUsageStats)

\* the awaited fetch resolves with an HTTP response: clearTimeout and the
\* envelope of the outcome
FetchResolves(q, httpStatus) ==
    /\ pc[q] = "fetch"
    /\ timer' = [timer EXCEPT ![q] = NoTimer]
    /\ apiUsageStats' = RecordFallback(apiUsageStats)
    /\ Send(q, 200, ProbeBody(probe[q][Len(probe[q])].url, httpStatus, now - startTime[q]))
    /\ pc' = [pc EXCEPT ![q] = "done"]
    /\ probe' = SettleProbe(q, Outcome_Response(httpStatus))
    /\ UNCHANGED <<downdetector, req, attempts, now, startTime, outsideVars>>

\* the catch of fallbackHttpCheck after the awaited fetch rejected
CatchProbe(q, message) ==
    /\ apiUsageStats' = RecordFallback(apiUsageStats)
    /\ Send(q, 200, ProbeFailedBody(probe[q][Len(probe[q])].url, message))
    /\ pc' = [pc EXCEPT ![q] = "done"]
    /\ probe' = SettleProbe(q, Outcome_Error(message))
    /\ UNCHANGED <<downdetector, req, attempts, now, startTime, outsideVars>>

\* the awaited fetch rejects.  A transport error leaves the timer armed (the
\* catch has no clearTimeout); the abort message is the rejection the fired
\* timer causes, at a moment the clock of this action does not fix
FetchRejects(q, message) ==
    /\ pc[q] = "fetch"
    /\ timer' = IF message = AbortMessage THEN [timer EXCEPT ![q] = NoTimer] ELSE timer
    /\ CatchProbe(q, message)

\* the abort of a probe that has already answered runs the catch again
TimerFires_CatchesAgain(q) ==
    /\ timer[q].armed
    /\ now >= timer[q].deadline
    /\ timer' = [timer EXCEPT ![q] = NoTimer]
    /\ CatchProbe(q, AbortMessage)

\* the timer of q's probe is due and its callback runs controller.abort():
\* the awaited fetch rejects with the abort message; on a probe that has
\* already failed the abort has no effect
TimerFires(q) ==
    /\ timer[q].armed
    /\ now >= timer[q].deadline
    /\ timer' = [timer EXCEPT ![q] = NoTimer]
    /\ IF pc[q] = "fetch" THEN CatchProbe(q, AbortMessage)
       ELSE UNCHANGED <<downdetector, apiUsageStats, req, pc, attempts, probe, res,
                        now, startTime, outsideVars>>

\* one step of the clock
TickMs == ProbeTimeoutMs \div 2

\* time passes; a timer that is due fires before the clock moves past its
\* deadline
Tick ==
    /\ now + TickMs <= MaxTicks * TickMs
    /\ \A q \in QueryIds : timer[q].armed => now + TickMs <= timer[q].deadline
    /\ now' = now + TickMs
    /\ UNCHANGED <<downdetector, apiUsageStats, req, pc, attempts, probe, res,
                   startTime, timer, outsideVars>>

NoRequest == [service |-> Undefined, url |-> Undefined]

\* the classifier has not been run on payload
NotRun == "none"

Init ==
    /\ downdetector \in BOOLEAN
    /\ apiUsageStats = [downdetectorApi |-> 0, httpFallback |-> 0, totalRequests |-> 0]
    /\ req = [q \in QueryIds |-> NoRequest]
    /\ pc = [q \in QueryIds |-> "idle"]
    /\ attempts = [q \in QueryIds |-> <<>>]
    /\ probe = [q \in QueryIds |-> <<>>]
    /\ res = [q \in QueryIds |-> <<>>]
    /\ now = 0
    /\ startTime = [q \in QueryIds |-> 0]
    /\ timer = [q \in QueryIds |-> NoTimer]
    /\ payload = Undefined
    /\ verdict = NotRun
    /\ QuietElsewhere

Next ==
    \/ \E q \in Queries, service \in Services, url \in Urls : Get(q, service, url)
    \/ \E q \in Queries, response \in Payloads : DowndetectorResolves(q, response)
    \/ \E q \in Queries : DowndetectorRejects(q)
    \/ \E q \in Queries, httpStatus \in HttpStatuses : FetchResolves(q, httpStatus)
    \/ \E q \in Queries, message \in FetchErrors : FetchRejects(q, message)

\* the handler with the clock left where it is
Spec == Init /\ [][Next]_vars

\* the handler with the clock running, for the first MaxTimedQueries
\* queries: the abort comes from the timer
NextTimed ==
    \/ \E q \in TimedQueries, service \in Services, url \in Urls : Get(q, service, url)
    \/ \E q \in TimedQueries, response \in Payloads : DowndetectorResolves(q, response)
    \/ \E q \in TimedQueries : DowndetectorRejects(q)
    \/ \E q \in TimedQueries, httpStatus \in HttpStatuses : FetchResolves(q, httpStatus)
    \/ \E q \in TimedQueries, message \in TransportErrors : FetchRejects(q, message)
    \/ \E q \in TimedQueries : TimerFires(q)
    \/ Tick

SpecTimed == Init /\ [][NextTimed]_vars

----------------------------------------------------------------------------
(* The handler without HTTP fallback, src/routes/downdetector.js l.30-103 *)

\* downdetector(service), downdetector(service, 'it'), downdetector(service, 'nl')
DomainsNoFallback == <<"com", "it", "nl">>

\* error.message of the throw after the last domain (l.70-72):
\* `Failed to fetch downdetector data for ${service} from all domains`
Chars_FailedFor ==
    <<"F","a","i","l","e","d"," ","t","o"," ","f","e","t","c","h"," ","d",
      "o","w","n","d","e","t","e","c","t","o","r"," ","d","a","t","a"," ",
      "f","o","r"," ">>

Chars_FromAllDomains ==
    <<" ","f","r","o","m"," ","a","l","l"," ","d","o","m","a","i","n","s">>

AllDomainsFailed(service) == Chars_FailedFor \o service \o Chars_FromAllDomains

\* the 500 envelope of the outer catch
ErrorBody(service, message) ==
    [error       |-> "Failed to fetch service status from downdetector",
     message     |-> message,
     serviceName |-> service]

\* the outer catch: totalRequests-- and the 500 response
CatchNoFallback(q, message) ==
    /\ apiUsageStats' = UndoRequest(apiUsageStats)
    /\ Send(q, 500, ErrorBody(req[q].service.chars, message))
    /\ pc' = [pc EXCEPT ![q] = "done"]

\* router.get('/'): from the request to the first await, or to the 400;
\* only req.query.service is read
GetNoFallback(q, service) ==
    /\ Arrives(q)
    /\ req' = [req EXCEPT ![q] = [service |-> service, url |-> Undefined]]
    /\ UNCHANGED <<downdetector, probe, now, timer, outsideVars>>
    /\ IF MissingService(service) THEN
          /\ Send(q, 400, [error |-> "Service name parameter is required"])
          /\ pc' = [pc EXCEPT ![q] = "done"]
          /\ UNCHANGED <<apiUsageStats, attempts, startTime>>
       ELSE
          /\ startTime' = [startTime EXCEPT ![q] = now]
          /\ apiUsageStats' = RecordRequest(apiUsageStats)
          /\ Attempt(q, DomainsNoFallback[1])
          /\ UNCHANGED res

\* the awaited downdetector call resolves with data
ResolvesNoFallback(q, response) ==
    /\ pc[q] \in {DomainsNoFallback[i] : i \in DOMAIN DomainsNoFallback}
    /\ attempts' = Settle(q, "resolved")
    /\ UNCHANGED <<downdetector, req, probe, clockVars, outsideVars>>
    /\ LET status == analyzeDowndetectorData(response)
       IN  IF status = Threw THEN
              CatchNoFallback(q, ThrowMessage(response))
           ELSE
              /\ apiUsageStats' = RecordPrimary(apiUsageStats)
              /\ Send(q, 200, PrimaryBody(status, now - startTime[q],
                                          req[q].service.chars, response))
              /\ pc' = [pc EXCEPT ![q] = "done"]

\* the awaited downdetector call rejects: the next domain, or the throw of
\* "all domains" into the outer catch after the last one
RejectsNoFallback(q) ==
    /\ pc[q] \in {DomainsNoFallback[i] : i \in DOMAIN DomainsNoFallback}
    /\ UNCHANGED <<downdetector, req, probe, clockVars, outsideVars>>
    /\ LET i == DomainIndex(DomainsNoFallback, pc[q])
       IN  IF i < Len(DomainsNoFallback) THEN
              /\ attempts' = [Settle(q, "rejected") EXCEPT ![q] =
                                 Append(@, [domain |-> DomainsNoFallback[i + 1],
                                            outcome |-> "pending"])]
              /\ pc' = [pc EXCEPT ![q] = DomainsNoFallback[i + 1]]
              /\ UNCHANGED <<apiUsageStats, res>>
           ELSE
              /\ attempts' = Settle(q, "rejected")
              /\ CatchNoFallback(q, AllDomainsFailed(req[q].service.chars))

\* require('downdetector-api') is not guarded here: the process serves only
\* when the integration loaded
InitNoFallback ==
    /\ downdetector = TRUE
    /\ apiUsageStats = [downdetectorApi |-> 0, totalRequests |-> 0]
    /\ req = [q \in QueryIds |-> NoRequest]
    /\ pc = [q \in QueryIds |-> "idle"]
    /\ attempts = [q \in QueryIds |-> <<>>]
    /\ probe = [q \in QueryIds |-> <<>>]
    /\ res = [q \in QueryIds |-> <<>>]
    /\ now = 0
    /\ startTime = [q \in QueryIds |-> 0]
    /\ timer = [q \in QueryIds |-> NoTimer]
    /\ payload = Undefined
    /\ verdict = NotRun
    /\ QuietElsewhere

NextNoFallback ==
    \/ \E q \in Queries, service \in Services : GetNoFallback(q, service)
    \/ \E q \in Queries, response \in Payloads : ResolvesNoFallback(q, response)
    \/ \E q \in Queries : RejectsNoFallback(q)

SpecNoFallback == InitNoFallback /\ [][NextNoFallback]_vars

----------------------------------------------------------------------------
(* GET /stats of the fallback-capable route, src/routes/downdetector.js l.388-400 *)

\* a number with one decimal is held as its count of tenths: 33.3 is 333

\* the decimals after the first are cut off
ToFixed1_Truncated(a, t) == (1000 * a) \div t

\* parseFloat(((a / t) * 100).toFixed(1)): the multiple of 0.1 nearest to
\* the quotient, the larger one at a tie.  For the counts of the model the
\* double (a / t) * 100 is too close to 100a/t to fall on the other side of
\* a rounding boundary.
ToFixed1(a, t) == (2000 * a + t) \div (2 * t)

\* totalRequests > 0 ? ((downdetectorApi / totalRequests) * 100).toFixed(1) : 0
successRate(stats) ==
    IF stats.totalRequests > 0
    THEN ToFixed1(stats.downdetectorApi, stats.totalRequests)
    ELSE 0

\* the body of the response, timestamp left out
StatsBody(stats) ==
    [kind            |-> "stats",
     totalRequests   |-> stats.totalRequests,
     downdetectorApi |-> stats.downdetectorApi,
     httpFallback    |-> stats.httpFallback,
     successRate     |-> successRate(stats)]

\* router.get('/stats')
Stats ==
    /\ snapshot' = StatsBody(apiUsageStats)
    /\ UNCHANGED <<downdetector, apiUsageStats, req, pc, attempts, probe, res,
                   clockVars, classifierVars, ticketVars, billVars>>

\* the queries the counters are read between: one service name, the url
\* given or not, a payload that classifies and one that makes the
\* classifier throw, one HTTP status, one transport error
StatsUrls     == {Undefined, Url_ok}
StatsPayloads == {Payload_up, Payload_null}

NextStats ==
    \/ \E q \in StatsQueries, url \in StatsUrls : Get(q, Service_Gh, url)
    \/ \E q \in StatsQueries, response \in StatsPayloads : DowndetectorResolves(q, response)
    \/ \E q \in StatsQueries : DowndetectorRejects(q)
    \/ \E q \in StatsQueries : FetchResolves(q, 200)
    \/ \E q \in StatsQueries, message \in TransportErrors : FetchRejects(q, message)
    \/ Stats

SpecStats == Init /\ [][NextStats]_vars

----------------------------------------------------------------------------
(* analyzeDowndetectorData run on its own, src/routes/downdetector.js l.281-326 *)

MaxEntries == 3

\* the sequences over S of at most n entries
SeqsUpTo(S, n) == UNION {[1..k -> S] : k \in 0..n}

\* n entries {value: 0}
Zeros(n) == [i \in 1..n |-> Point(0)]

\* more entries than the window holds: an older entry before a full window
\* that ends with the entries of s
Long(old, s) == <<old>> \o Zeros(RecentWindow - Len(s)) \o s

ReportValues   == {Point(0), Point(3), Point(10), Point(40)}
BaselineValues == {Point(0), Point(1)}
OddValues      == {NullPoint, NoValuePoint, TextPoint, Point(-5), Point(10), Point(40)}

ReportInputs ==
    {Absent, NotArray}
    \union {Arr(s) : s \in SeqsUpTo(ReportValues, MaxEntries)}
    \union {Arr(s) : s \in SeqsUpTo(OddValues, 2)}
    \union {Arr(Long(old, s)) : old \in {Point(40), NullPoint},
                                s \in SeqsUpTo(ReportValues, 1)}

BaselineInputs ==
    {Absent, NotArray}
    \union {Arr(s) : s \in SeqsUpTo(BaselineValues, MaxEntries)}
    \union {Arr(<<v>>) : v \in {NullPoint, NoValuePoint, Point(-1)}}
    \union {Arr(Long(old, <<Point(1)>>)) : old \in {Point(40), NullPoint}}

ClassifierInputs ==
    {Undefined} \union {Obj(r, b) : r \in ReportInputs, b \in BaselineInputs}

\* analyzeDowndetectorData(payload) returns or throws
Classify ==
    /\ verdict = NotRun
    /\ verdict' = analyzeDowndetectorData(payload)
    /\ UNCHANGED <<downdetector, apiUsageStats, req, pc, attempts, probe, res,
                   clockVars, payload, otherRouteVars>>

InitClassify ==
    /\ payload \in ClassifierInputs
    /\ verdict = NotRun
    /\ downdetector = TRUE
    /\ apiUsageStats = [downdetectorApi |-> 0, httpFallback |-> 0, totalRequests |-> 0]
    /\ req = [q \in QueryIds |-> NoRequest]
    /\ pc = [q \in QueryIds |-> "idle"]
    /\ attempts = [q \in QueryIds |-> <<>>]
    /\ probe = [q \in QueryIds |-> <<>>]
    /\ res = [q \in QueryIds |-> <<>>]
    /\ now = 0
    /\ startTime = [q \in QueryIds |-> 0]
    /\ timer = [q \in QueryIds |-> NoTimer]
    /\ QuietElsewhere

NextClassify == Classify

SpecClassify == InitClassify /\ [][NextClassify]_vars

----------------------------------------------------------------------------
(* Saves of support tickets, the status route idle *)

StatusRouteIdle ==
    /\ downdetector = TRUE
    /\ apiUsageStats = [downdetectorApi |-> 0, httpFallback |-> 0, totalRequests |-> 0]
    /\ req = [q \in QueryIds |-> NoRequest]
    /\ pc = [q \in QueryIds |-> "idle"]
    /\ attempts = [q \in QueryIds |-> <<>>]
    /\ probe = [q \in QueryIds |-> <<>>]
    /\ res = [q \in QueryIds |-> <<>>]
    /\ now = 0
    /\ startTime = [q \in QueryIds |-> 0]
    /\ timer = [q \in QueryIds |-> NoTimer]
    /\ payload = Undefined
    /\ verdict = NotRun
    /\ snapshot = NoSnapshot

InitTickets ==
    /\ StatusRouteIdle
    /\ \E stored \in InitialCollections : TicketsAtStart(stored)
    /\ BillsAtStart

NextTickets ==
    \/ \E s \in Saves, isNew \in BOOLEAN, given \in GivenNumbers : Save(s, isNew, given)
    \/ \E s \in Saves : CountResolves(s)
    \/ \E s \in Saves, ms \in Timestamps : FindResolves(s, ms)
    \/ \E s \in Saves : QueryRejects(s)
    \/ \E s \in Saves : Insert(s)
    \/ \E s \in Saves : Update(s)

SpecTickets == InitTickets /\ [][NextTickets]_vars

----------------------------------------------------------------------------
(* Payments of bills, the status route idle and the clock running *)

InitBills ==
    /\ StatusRouteIdle
    /\ TicketsAtStart({})
    /\ BillsAtStart

NextBills ==
    \/ \E p \in Payments, id \in BillIds, body \in Bodies : Post(p, id, body)
    \/ \E p \in Payments : Pay(p)
    \/ Tick

SpecBills == InitBills /\ [][NextBills]_vars

----------------------------------------------------------------------------
(* Vocabulary of the properties *)

Final == {"done", "rejected"}

\* q was received with a non-empty service name
Accepted(q) == pc[q] # "idle" /\ ~Falsy(req[q].service)

\* q's handler has ended: it answered, or its promise rejected
Completed(q) == pc[q] \in Final

InFlight(q) == pc[q] \notin Final \union {"idle"}

Tagged(body, source) == "dataSource" \in DOMAIN body /\ body.dataSource = source

Verdicts == {"up", "degraded", "down"}

Unanswered == {q \in Queries : Accepted(q) /\ res[q] = <<>>}

PerSourceHits == apiUsageStats.downdetectorApi + apiUsageStats.httpFallback

----------------------------------------------------------------------------
(* C1..C10 *)

\* C1 (as claimed): in the fallback-capable handler every query with a
\* non-empty service name whose handler has ended was answered once, with
\* HTTP 200 and a status in {up, degraded, down}; no error leaves the handler.
C1_AlwaysAnswered200 ==
    \A q \in Queries :
        Accepted(q) /\ Completed(q) =>
            /\ pc[q] = "done"
            /\ Len(res[q]) = 1
            /\ res[q][1].code = 200
            /\ res[q][1].body.status \in Verdicts

\* C2 (as claimed): once a query has completed, totalRequests equals
\* downdetectorApi + httpFallback, other queries being in flight or not.
C2_EqualWhileInFlight ==
    (\E q \in Queries : Accepted(q) /\ Completed(q)) =>
        apiUsageStats.totalRequests = PerSourceHits

\* C2 (amended): in every state totalRequests equals downdetectorApi +
\* httpFallback plus the number of accepted queries that have not sent their
\* response.
C2_EqualUpToUnanswered ==
    apiUsageStats.totalRequests = PerSourceHits + Cardinality(Unanswered)

\* a query has completed while another one is suspended at a cascade attempt
\* or at the probe
C2_Witness ==
    \E q, p \in Queries :
        /\ Accepted(q) /\ pc[q] = "done"
        /\ InFlight(p)
        /\ apiUsageStats.totalRequests = 2

\* C3 (as claimed): once every query has completed and none is in flight,
\* totalRequests is the number of queries with a non-empty service name and
\* equals downdetectorApi + httpFallback.
C3_NoLostIncrement ==
    (\A q \in Queries : Completed(q)) =>
        /\ apiUsageStats.totalRequests = Cardinality({q \in Queries : Accepted(q)})
        /\ apiUsageStats.totalRequests = PerSourceHits

\* C4 (as claimed): the step that completes a query with a non-empty service
\* name increments exactly one per-source counter by one, the one its
\* response is tagged with, and leaves the other unchanged.
C4_OneCounterPerQuery ==
    [][\A q \in Queries :
          ~Completed(q) /\ Completed(q)' /\ Accepted(q)' =>
              /\ Len(res'[q]) = 1
              /\ \/ /\ Tagged(res'[q][1].body, "downdetector-api")
                    /\ apiUsageStats'.downdetectorApi = apiUsageStats.downdetectorApi + 1
                    /\ apiUsageStats'.httpFallback = apiUsageStats.httpFallback
                 \/ /\ Tagged(res'[q][1].body, "http-fallback")
                    /\ apiUsageStats'.httpFallback = apiUsageStats.httpFallback + 1
                    /\ apiUsageStats'.downdetectorApi = apiUsageStats.downdetectorApi
      ]_vars

\* C5 (as claimed): no query with a non-empty service name is answered with
\* a 5xx status, also when every cascade domain attempt failed.
C5_Never5xx ==
    \A q \in Queries :
        Accepted(q) => \A i \in DOMAIN res[q] : res[q][i].code < 500

\* C6: a query with a non-empty service name and a non-empty url makes no
\* downdetector call, hands exactly that url to the probe, and its response
\* is tagged http-fallback and carries that url.
C6_UrlForcesFallback ==
    \A q \in Queries :
        Accepted(q) /\ ~Falsy(req[q].url) =>
            /\ attempts[q] = <<>>
            /\ Len(probe[q]) = 1
            /\ probe[q][1].url = req[q].url.chars
            /\ pc[q] \in {"fetch", "done"}
            /\ pc[q] = "done" =>
                  /\ Len(res[q]) = 1
                  /\ Tagged(res[q][1].body, "http-fallback")
                  /\ res[q][1].body.url = req[q].url.chars

\* a query with a well-formed url has been answered from the probe of it
C6_Witness ==
    \E q \in Queries :
        /\ Accepted(q) /\ req[q].url = Url_ok /\ pc[q] = "done"
        /\ probe[q][1].fetched
        /\ res[q][1].body.status = "up"

\* C7: a query whose service is missing or empty is answered 400 with the
\* validation message in the step that receives it; that step leaves the
\* three counters unchanged, and the query never makes a cascade attempt or
\* a probe.
C7_ValidationHasNoEffect ==
    /\ [](\A q \in Queries :
            pc[q] # "idle" /\ Falsy(req[q].service) =>
                /\ pc[q] = "done"
                /\ res[q] = <<[code |-> 400,
                               body |-> [error |-> "Service name parameter is required"]]>>
                /\ attempts[q] = <<>>
                /\ probe[q] = <<>>)
    /\ [][\A q \in Queries :
            pc[q] = "idle" /\ pc'[q] # "idle" /\ Falsy(req'[q].service) =>
                apiUsageStats' = apiUsageStats
         ]_vars

\* a query with an empty service name was refused after another query had
\* been counted
C7_Witness ==
    \E q \in Queries :
        /\ pc[q] = "done" /\ req[q].service = StrVal(<<>>)
        /\ res[q][1].code = 400
        /\ apiUsageStats.totalRequests = 1

\* C8: with the integration loaded and no url given, a probe is made only
\* after .com and then .it were attempted and both failed; it is the probe
\* of https://{lower-cased service}.com and the response is tagged
\* http-fallback.
C8_ProbeOnlyAfterExhaustion ==
    \A q \in Queries :
        downdetector /\ Accepted(q) /\ Falsy(req[q].url) /\ probe[q] # <<>> =>
            /\ attempts[q] = <<[domain |-> "com", outcome |-> "rejected"],
                               [domain |-> "it", outcome |-> "rejected"]>>
            /\ Len(probe[q]) = 1
            /\ probe[q][1].url = Chars_https \o toLowerCase(req[q].service.chars) \o Chars_com
            /\ pc[q] = "done" =>
                  /\ Len(res[q]) = 1
                  /\ Tagged(res[q][1].body, "http-fallback")

\* a query whose two cascade attempts failed was answered from the probe of
\* the canonical URL
C8_Witness ==
    \E q \in Queries :
        /\ downdetector /\ req[q].service = Service_Gh /\ Falsy(req[q].url)
        /\ Len(attempts[q]) = 2
        /\ probe[q] # <<>> /\ probe[q][1].fetched
        /\ pc[q] = "done"
        /\ res[q][1].body.url = Chars_https \o <<"g", "h">> \o Chars_com

\* C9: with the integration not loaded and no url given, a query with a
\* non-empty service name makes no cascade attempt, probes
\* https://{lower-cased service}.com at once and is answered 200 tagged
\* http-fallback.
C9_UnavailableGoesToProbe ==
    \A q \in Queries :
        ~downdetector /\ Accepted(q) /\ Falsy(req[q].url) =>
            /\ attempts[q] = <<>>
            /\ Len(probe[q]) = 1
            /\ probe[q][1].url = Chars_https \o toLowerCase(req[q].service.chars) \o Chars_com
            /\ pc[q] \in {"fetch", "done"}
            /\ pc[q] = "done" =>
                  /\ Len(res[q]) = 1
                  /\ res[q][1].code = 200
                  /\ Tagged(res[q][1].body, "http-fallback")

\* without the integration, a query was answered from the probe of the
\* lower-cased canonical URL
C9_Witness ==
    \E q \in Queries :
        /\ ~downdetector /\ req[q].service = Service_Gh /\ Falsy(req[q].url)
        /\ pc[q] = "done"
        /\ res[q][1].body.url = Chars_https \o <<"g", "h">> \o Chars_com
        /\ res[q][1].body.dataSource = "http-fallback"

\* C10 (as claimed): a response tagged downdetector-api carries the raw
\* payload downdetectorData, and a response tagged http-fallback does not.
C10_PayloadIffPrimary ==
    \A q \in Queries : \A i \in DOMAIN res[q] :
        /\ Tagged(res[q][i].body, "downdetector-api") =>
              "downdetectorData" \in DOMAIN res[q][i].body
        /\ Tagged(res[q][i].body, "http-fallback") =>
              "downdetectorData" \notin DOMAIN res[q][i].body

----------------------------------------------------------------------------
(* C11..C20 *)

\* the last probe of q, and the responses a probe wrote
LastProbe(q) == probe[q][Len(probe[q])]

ProbeResponses ==
    UNION {{<<q, i>> : i \in {j \in DOMAIN res[q] : Tagged(res[q][j].body, "http-fallback")}} :
           q \in Queries}

\* C11: a response of the probe reports 'up' exactly when fetch resolved
\* with an HTTP status in [200,300); any other HTTP status is reported 'down'
\* together with that httpStatus; a transport error, a timeout and a URL
\* that does not parse are reported 'down'; the probe never reports
\* 'degraded'.
C11_ProbeUpIff2xx ==
    \A qi \in ProbeResponses :
        LET body == res[qi[1]][qi[2]].body
            o    == LastProbe(qi[1]).outcome
        IN  /\ body.status \in {"up", "down"}
            /\ body.status = "up" <=>
                   (o.kind = "response" /\ o.status >= 200 /\ o.status < 300)
            /\ o.kind = "response" <=> "httpStatus" \in DOMAIN body
            /\ o.kind = "response" => body.httpStatus = o.status

\* one probe was answered 299 and reported up, another was answered 503 and
\* reported down with httpStatus 503
C11_Witness ==
    \E q, p \in Queries :
        /\ pc[q] = "done" /\ probe[q] # <<>>
        /\ LastProbe(q).outcome = Outcome_Response(299)
        /\ res[q][1].body.status = "up"
        /\ pc[p] = "done" /\ probe[p] # <<>>
        /\ LastProbe(p).outcome = Outcome_Response(503)
        /\ res[p][1].body.status = "down" /\ res[p][1].body.httpStatus = 503

\* the probe of q failed: fetch rejected (transport error or abort), or it
\* resolved with a status outside [200,300)
ProbeFailed(o) ==
    \/ o.kind = "error"
    \/ o.kind = "response" /\ ~(o.status >= 200 /\ o.status < 300)

\* C12: on the fallback path a failed probe (transport error, timeout, HTTP
\* status outside 2xx) is answered with HTTP 200 and status 'down', never
\* with another status code; after a transport error or a timeout the body
\* has an error field that holds the message of the error.
C12_ProbeFailureIs200Down ==
    \A q \in Queries :
        probe[q] # <<>> /\ ProbeFailed(LastProbe(q).outcome) =>
            /\ Len(res[q]) = 1
            /\ res[q][1].code = 200
            /\ res[q][1].body.status = "down"
            /\ LastProbe(q).outcome.kind = "error" =>
                  /\ "error" \in DOMAIN res[q][1].body
                  /\ res[q][1].body.error = LastProbe(q).outcome.message

\* one probe ended in a transport error and another in the abort of its
\* timer; both were answered 200 with the message in the error field
C12_Witness ==
    \E q, p \in Queries :
        /\ probe[q] # <<>> /\ LastProbe(q).outcome = Outcome_Error("fetch failed")
        /\ res[q] # <<>> /\ res[q][1].code = 200 /\ res[q][1].body.error = "fetch failed"
        /\ probe[p] # <<>> /\ LastProbe(p).outcome = Outcome_Error(AbortMessage)
        /\ res[p] # <<>> /\ res[p][1].code = 200 /\ res[p][1].body.error = AbortMessage

\* C13: while the fetch of a probe is awaited its timer is armed for 10
\* seconds after the dispatch and the clock is not past that deadline; when
\* no answer and no transport error came, the timer fires at the deadline,
\* the fetch is aborted and the same step answers the query 200 with status
\* 'down' and the abort message in the error field.
C13_AbortedAtDeadline ==
    /\ [](\A q \in Queries :
            pc[q] = "fetch" =>
                /\ timer[q].armed
                /\ timer[q].deadline = LastProbe(q).at + ProbeTimeoutMs
                /\ now <= LastProbe(q).at + ProbeTimeoutMs)
    /\ [][\A q \in Queries :
            pc[q] = "fetch" /\ timer[q].armed /\ ~timer'[q].armed
            /\ LastProbe(q).outcome' # Outcome_Pending
            /\ LastProbe(q).outcome'.kind # "response" =>
                /\ now = LastProbe(q).at + ProbeTimeoutMs
                /\ pc'[q] = "done"
                /\ res'[q] = <<[code |-> 200,
                                body |-> [status |-> "down", responseTime |-> 0,
                                          error |-> AbortMessage,
                                          url |-> LastProbe(q).url, fallback |-> TRUE,
                                          dataSource |-> "http-fallback"]]>>
         ]_vars

\* a probe dispatched after the cascade had taken some time was aborted 10
\* seconds after its dispatch and answered down
C13_Witness ==
    \E q \in Queries :
        /\ pc[q] = "done" /\ probe[q] # <<>>
        /\ LastProbe(q).outcome = Outcome_Error(AbortMessage)
        /\ LastProbe(q).at > 0
        /\ now = LastProbe(q).at + ProbeTimeoutMs
        /\ res[q][1].body.status = "down"

\* the URLs of the inputs that new URL refuses: one without a scheme, and
\* the canonical URL of a service name with a space in it
MalformedUrls == {Url_bad.chars, Chars_https \o <<"a", " ", "b">> \o Chars_com}

\* the probe of q returned an up/down outcome to the caller
ReturnedOutcome(q) ==
    /\ Len(res[q]) = 1
    /\ res[q][1].code = 200
    /\ res[q][1].body.status \in {"up", "down"}

\* C14 (as claimed): fetch is never called for a malformed URL, and the
\* probe of a malformed URL, and only that probe, fails instead of returning
\* an up/down outcome.
C14_MalformedUrlFails ==
    \A q \in Queries :
        probe[q] # <<>> /\ pc[q] = "done" =>
            /\ LastProbe(q).url \in MalformedUrls => ~LastProbe(q).fetched
            /\ LastProbe(q).url \in MalformedUrls <=> ~ReturnedOutcome(q)

\* C14 (amended): fetch is never called for a malformed URL; the probe of a
\* malformed URL does not fail: in the step that starts it, it answers 200
\* with status 'down' and the error 'Invalid URL' and counts a fallback hit,
\* as after a network failure; every probe that has ended returned an
\* up/down outcome.
C14_MalformedUrlIsDown ==
    /\ [](\A q \in Queries :
            probe[q] # <<>> =>
                /\ LastProbe(q).url \in MalformedUrls =>
                      /\ ~LastProbe(q).fetched
                      /\ pc[q] = "done"
                      /\ res[q][1].body.status = "down"
                      /\ res[q][1].body.error = "Invalid URL"
                /\ pc[q] = "done" => ReturnedOutcome(q))
    /\ [][\A q \in Queries :
            probe[q] = <<>> /\ probe'[q] # <<>> /\ LastProbe(q).url' \in MalformedUrls =>
                apiUsageStats'.httpFallback = apiUsageStats.httpFallback + 1
         ]_vars

\* a query whose url does not parse, and one whose canonical URL does not
\* parse, were answered down with 'Invalid URL' and no fetch
C14_Witness ==
    \E q, p \in Queries :
        /\ pc[q] = "done" /\ probe[q] # <<>>
        /\ LastProbe(q).url = Url_bad.chars /\ ~LastProbe(q).fetched
        /\ res[q][1].code = 200 /\ res[q][1].body.error = "Invalid URL"
        /\ pc[p] = "done" /\ probe[p] # <<>>
        /\ LastProbe(p).url = Chars_https \o <<"a", " ", "b">> \o Chars_com
        /\ ~LastProbe(p).fetched
        /\ res[p][1].body.status = "down"

\* the last n entries of a sequence, all of them when there are fewer
LastEntries(items, n) ==
    LET k == IF Len(items) < n THEN Len(items) ELSE n
    IN  [i \in 1..k |-> items[Len(items) - k + i]]

Numeric(items) == \A i \in DOMAIN items : items[i].kind = "point"

RECURSIVE Total(_)
Total(items) == IF items = <<>> THEN 0 ELSE Head(items).value + Total(Tail(items))

\* the entries the claims call selected
SelectedReports  == LastEntries(payload.reports.items, 5)
SelectedBaseline == LastEntries(payload.baseline.items, 5)

HasReports ==
    /\ payload.kind = "object"
    /\ payload.reports.kind = "array"
    /\ payload.reports.items # <<>>

\* non-empty numeric reports and a numeric baseline with a positive mean
PositiveBaseline ==
    /\ HasReports
    /\ Numeric(SelectedReports)
    /\ payload.baseline.kind = "array"
    /\ Numeric(SelectedBaseline)
    /\ Total(SelectedBaseline) > 0

\* the verdict of the ratio (sumR / lenR) / (sumB / lenB) of real numbers,
\* sumB and the lengths positive
VerdictOfRatio(sumR, lenR, sumB, lenB) ==
    IF sumR * lenB > 10 * sumB * lenR THEN "down"
    ELSE IF sumR * lenB > 3 * sumB * lenR THEN "degraded"
    ELSE "up"

\* C15 (as claimed): for a payload with non-empty reports and a positive
\* baseline mean the classifier returns 'down' when avgReports / avgBaseline
\* is above 10, 'degraded' when it is above 3 and at most 10, and 'up' when
\* it is at most 3; a ratio of exactly 10 gives 'degraded' and a ratio of
\* exactly 3 gives 'up'.
C15_ThresholdsExact ==
    verdict # NotRun /\ PositiveBaseline =>
        verdict = VerdictOfRatio(Total(SelectedReports), Len(SelectedReports),
                                 Total(SelectedBaseline), Len(SelectedBaseline))

\* C16 (as claimed): the classifier returns 'up' whenever reports is
\* missing, not an array or empty, whatever the baseline is.
C16_NoReportsIsUp ==
    verdict # NotRun /\ ~HasReports => verdict = "up"

\* a reports or baseline property cut down to its last 5 entries
Recent(field) ==
    IF field.kind = "array" THEN Arr(LastEntries(field.items, 5)) ELSE field

\* C17: the classifier gives a payload the outcome it gives the payload cut
\* down to the last 5 entries of reports and the last 5 entries of baseline:
\* two payloads that agree on those entries get the same verdict, whatever
\* their older entries are.
C17_OnlyRecentEntries ==
    verdict # NotRun /\ payload.kind = "object" =>
        verdict = analyzeDowndetectorData(Obj(Recent(payload.reports),
                                              Recent(payload.baseline)))

\* six reports whose oldest entry alone would lift the mean above 3 were
\* classified up, as their last five entries are
C17_Witness ==
    /\ payload = Obj(Arr(<<Point(40), Point(0), Point(0), Point(0), Point(0), Point(10)>>),
                     Absent)
    /\ verdict = "up"

\* an entry's value with null entries, entries without value, negative and
\* non-numeric values counted as zero
ValueOrZero(entry) ==
    IF entry.kind = "point" /\ entry.value > 0 THEN entry.value ELSE 0

RECURSIVE TotalOrZero(_)
TotalOrZero(items) ==
    IF items = <<>> THEN 0 ELSE ValueOrZero(Head(items)) + TotalOrZero(Tail(items))

NoBaseline ==
    \/ payload.baseline.kind = "absent"
    \/ payload.baseline.kind = "array" /\ payload.baseline.items = <<>>

\* C18 (as claimed): with non-empty reports and a missing or empty baseline
\* the verdict is the one of avgReports alone, divided by 1: 'down' above
\* 10, 'degraded' above 3 and at most 10, 'up' otherwise; nothing is raised.
C18_EmptyBaselineDividesByOne ==
    verdict # NotRun /\ HasReports /\ NoBaseline =>
        verdict = VerdictOfRatio(TotalOrZero(SelectedReports), Len(SelectedReports), 1, 1)

\* C18 restricted to the payloads whose selected reports are all numbers:
\* there the verdict is the one of avgReports divided by 1
C18_OnNumbers ==
    verdict # NotRun /\ HasReports /\ NoBaseline /\ Numeric(SelectedReports) =>
        verdict = VerdictOfRatio(Total(SelectedReports), Len(SelectedReports), 1, 1)

\* a payload with its null entries, entries without value, negative and
\* non-numeric values replaced by {value: 0}
ZeroedEntries(field) ==
    IF field.kind = "array"
    THEN Arr([i \in DOMAIN field.items |-> Point(ValueOrZero(field.items[i]))])
    ELSE field

\* C19 (as claimed): the classifier returns a verdict in {up, degraded,
\* down} for every payload and never raises; null entries, entries without
\* value, negative and non-numeric values count as zero.
C19_NeverRaises ==
    verdict # NotRun =>
        /\ verdict \in Verdicts
        /\ payload.kind = "object" =>
              verdict = analyzeDowndetectorData(Obj(ZeroedEntries(payload.reports),
                                                    ZeroedEntries(payload.baseline)))

\* C20 (as claimed): no step of a handler decreases a usage counter, on the
\* success paths and on the failure paths of both handlers.
C20_CountersNeverDecrease ==
    [][\A k \in DOMAIN apiUsageStats : apiUsageStats'[k] >= apiUsageStats[k]]_vars

----------------------------------------------------------------------------
(* C21..C30 *)

\* the snapshot shows the counters as they are when GET /stats answers
SnapshotIsCurrent ==
    [][snapshot' # snapshot =>
          /\ snapshot'.kind = "stats"
          /\ snapshot'.totalRequests = apiUsageStats.totalRequests
          /\ snapshot'.downdetectorApi = apiUsageStats.downdetectorApi
          /\ snapshot'.httpFallback = apiUsageStats.httpFallback
      ]_vars

\* a snapshot taken before any query shows 0 for the three counters and for
\* successRate
ZeroAtStart ==
    snapshot.kind = "stats" /\ (\A q \in StatsQueries : pc[q] = "idle") =>
        snapshot = [kind |-> "stats", totalRequests |-> 0, downdetectorApi |-> 0,
                    httpFallback |-> 0, successRate |-> 0]

\* C21 (as claimed): a snapshot taken before any query shows 0 everywhere;
\* in every later snapshot successRate is downdetectorApi / totalRequests *
\* 100, and 0 when totalRequests is 0.  (successRate counts tenths.)
C21_SuccessRateIsQuotient ==
    /\ []ZeroAtStart
    /\ [](snapshot.kind = "stats" =>
            IF snapshot.totalRequests = 0 THEN snapshot.successRate = 0
            ELSE snapshot.successRate * snapshot.totalRequests
                     = 1000 * snapshot.downdetectorApi)
    /\ SnapshotIsCurrent

\* C21 (amended): a snapshot taken before any query shows 0 everywhere; in
\* every later snapshot successRate is downdetectorApi / totalRequests * 100
\* rounded to one decimal (to the nearest tenth, a tie going up), and 0 when
\* totalRequests is 0.
C21_SuccessRateIsRounded ==
    /\ []ZeroAtStart
    /\ [](snapshot.kind = "stats" =>
            IF snapshot.totalRequests = 0 THEN snapshot.successRate = 0
            ELSE LET t == snapshot.totalRequests
                     e == 2 * (snapshot.successRate * t - 1000 * snapshot.downdetectorApi)
                 IN  0 - t < e /\ e <= t)
    /\ SnapshotIsCurrent

\* two of three counted queries were answered from the crowd-sourced source
\* and the snapshot shows 66.7
C21_Witness ==
    /\ snapshot.kind = "stats"
    /\ snapshot.totalRequests = 3 /\ snapshot.downdetectorApi = 2
    /\ snapshot.successRate = 667

\* the priority list of the two handlers: the default domain, then the
\* regional ones; the fallback-capable handler stops after the second
PriorityList == <<"com", "it", "nl">>

\* C22: the domains attempted for a query are, in order, the first domains
\* of the priority list, .com first; every attempt but the last one has
\* failed, so nothing is attempted after a success; an attempt once made is
\* never made again: the list of attempts only grows at its end, by one
\* attempt at a time, and a settled attempt stays as it is.
C22_CascadeIsPrefix ==
    /\ [](\A q \in Queries :
            /\ Len(attempts[q]) <= Len(PriorityList)
            /\ \A i \in DOMAIN attempts[q] :
                  /\ attempts[q][i].domain = PriorityList[i]
                  /\ i < Len(attempts[q]) => attempts[q][i].outcome = "rejected")
    /\ [][\A q \in Queries :
            /\ Len(attempts'[q]) \in {Len(attempts[q]), Len(attempts[q]) + 1}
            /\ \A i \in DOMAIN attempts[q] :
                  /\ attempts'[q][i].domain = attempts[q][i].domain
                  /\ attempts[q][i].outcome # "pending" =>
                        attempts'[q][i].outcome = attempts[q][i].outcome
         ]_vars

\* a query failed on .com, succeeded on .it and was answered from it
C22_Witness ==
    \E q \in Queries :
        /\ attempts[q] = <<[domain |-> "com", outcome |-> "rejected"],
                           [domain |-> "it", outcome |-> "resolved"]>>
        /\ pc[q] = "done"
        /\ Tagged(res[q][1].body, "downdetector-api")

\* C23 (as claimed): every suspension point of an accepted query, a cascade
\* attempt as well as the probe, is bounded by a deadline: while the query
\* waits a timer is armed for it, and the clock does not pass the timer's
\* deadline before the query has moved on.
C23_EverySuspensionHasDeadline ==
    \A q \in TimedQueries :
        InFlight(q) => timer[q].armed /\ now <= timer[q].deadline

\* C24 (as claimed): the responseTime of a response of the fallback path is
\* the time elapsed from the start of the query to the step that answers,
\* when the probe got an HTTP response and when it failed.
C24_ResponseTimeIsElapsed ==
    [][\A q \in TimedQueries :
          res[q] = <<>> /\ res'[q] # <<>> /\ Tagged(res'[q][1].body, "http-fallback") =>
              res'[q][1].body.responseTime = now - startTime'[q]
      ]_vars

\* C25: in every state of the fallback-capable handler, queries in flight or
\* not, downdetectorApi + httpFallback <= totalRequests and downdetectorApi
\* <= totalRequests, and the successRate of every stats snapshot lies in
\* [0, 100] (0 to 1000 tenths).
C25_CountersBounded ==
    /\ PerSourceHits <= apiUsageStats.totalRequests
    /\ apiUsageStats.downdetectorApi <= apiUsageStats.totalRequests
    /\ apiUsageStats.downdetectorApi >= 0 /\ apiUsageStats.httpFallback >= 0
    /\ snapshot.kind = "stats" =>
          snapshot.successRate >= 0 /\ snapshot.successRate <= 1000

\* with two queries answered, one from each source, and a third in flight,
\* a snapshot showed 33.3
C25_Witness ==
    /\ \E q \in StatsQueries : InFlight(q)
    /\ apiUsageStats = [downdetectorApi |-> 1, httpFallback |-> 1, totalRequests |-> 3]
    /\ snapshot.kind = "stats" /\ snapshot.successRate = 333

\* C26: a request with a non-empty service name is sent at most one
\* response, whatever path it takes (url given, integration missing,
\* cascade, classification, outer catch, probe, a timer that fires after
\* the probe has failed): a response once written is never followed by
\* another one.
C26_AtMostOneResponse ==
    /\ [](\A q \in QueryIds : Accepted(q) => Len(res[q]) <= 1)
    /\ [][\A q \in QueryIds : res[q] # <<>> => res'[q] = res[q]]_vars

\* a probe failed on a transport error and was answered; its timer, left
\* armed, fired later and nothing more was sent
C26_Witness ==
    \E q \in TimedQueries :
        /\ pc[q] = "done" /\ probe[q] # <<>>
        /\ LastProbe(q).outcome = Outcome_Error("fetch failed")
        /\ ~timer[q].armed /\ now >= LastProbe(q).at + ProbeTimeoutMs
        /\ Len(res[q]) = 1

\* the queries answered from the crowd-sourced source
AnsweredFromSource ==
    {q \in Queries : res[q] # <<>> /\ Tagged(res[q][1].body, "downdetector-api")}

\* C27: in the handler without HTTP fallback the step that answers 500
\* takes the query's own increment of totalRequests back, so that with every
\* query completed totalRequests equals downdetectorApi and the number of
\* queries answered from the crowd-sourced source, in every interleaving of
\* succeeding and failing queries.
C27_FailedQueryUncounted ==
    /\ []((\A q \in Queries : Completed(q)) =>
            /\ apiUsageStats.totalRequests = apiUsageStats.downdetectorApi
            /\ apiUsageStats.downdetectorApi = Cardinality(AnsweredFromSource))
    /\ [][\A q \in Queries :
            res[q] = <<>> /\ res'[q] # <<>> /\ res'[q][1].code = 500 =>
                apiUsageStats'.totalRequests = apiUsageStats.totalRequests - 1
         ]_vars

\* a query failed on .com, .it and .nl and another one was answered from the
\* source; both have completed and one is counted
C27_Witness ==
    \E q, p \in Queries :
        /\ \A r \in Queries : Completed(r)
        /\ Len(attempts[q]) = 3 /\ attempts[q][3].outcome = "rejected"
        /\ res[q][1].code = 500
        /\ p \in AnsweredFromSource
        /\ apiUsageStats.totalRequests = 1

\* the selected baseline entries are numbers, at least one, and sum to zero
ZeroBaseline ==
    /\ payload.baseline.kind = "array"
    /\ SelectedBaseline # <<>>
    /\ Numeric(SelectedBaseline)
    /\ Total(SelectedBaseline) = 0

\* C28 (as claimed): with non-empty reports and selected baseline entries
\* that sum to zero the classifier raises nothing and returns 'down' when
\* the mean of the selected reports is positive and 'up' when it is zero.
C28_ZeroBaselineStillVerdict ==
    verdict # NotRun /\ HasReports /\ ZeroBaseline =>
        verdict = IF TotalOrZero(SelectedReports) > 0 THEN "down" ELSE "up"

\* C28 restricted to the payloads whose selected reports are all numbers
C28_OnNumbers ==
    verdict # NotRun /\ HasReports /\ ZeroBaseline /\ Numeric(SelectedReports) =>
        verdict = IF Total(SelectedReports) > 0 THEN "down" ELSE "up"

\* the hook of save s numbered a new ticket, its queries answered
NumberedByHook(s) ==
    /\ doc[s].isNew
    /\ hook[s].attempts > 0
    /\ hook[s].error # "query"

HookDone(s)   == hook[s].pc \in {"insert", "saved", "failed"}
SaveEnded(s)  == hook[s].pc \in {"saved", "failed"}

\* C29: two new tickets whose pre-save hooks numbered them, however the
\* hooks interleaved at their awaits, have different ticketNumber values
\* once both hooks are through, and both saves succeed once both have ended.
C29_ConcurrentSavesDistinct ==
    \A s \in Saves, t \in Saves :
        (s # t /\ NumberedByHook(s) /\ NumberedByHook(t)) =>
            /\ (HookDone(s) /\ HookDone(t)) =>
                   doc[s].ticketNumber # doc[t].ticketNumber
            /\ (SaveEnded(s) /\ SaveEnded(t)) =>
                   (hook[s].pc = "saved" /\ hook[t].pc = "saved")

\* a pay request that passes validation and names a bill of mockBills
ValidPay(p) ==
    /\ post[p].pc # "idle"
    /\ validationResult(post[p].body)
    /\ Found(BillsAtLoad, post[p].id)

Handled(p) == post[p].pc = "done"

PaidResponse(r)    == r.code = 200 /\ r.body.message = "Payment processed successfully"
RefusedResponse(r) == r.code = 400 /\ r.body.message = "Bill has already been paid"

\* a valid pay request on the bill of p was handled before p
NotTheFirst(p) ==
    \E o \in Payments \ {p} :
        ValidPay(o) /\ Handled(o) /\ post[o].id = post[p].id

\* the handler runs for the valid request p in this step
PayStep(p) == ValidPay(p) /\ post[p].pc = "handler" /\ post'[p].pc = "done"

\* a bill never leaves 'paid', and a paid bill is never written again
NeverBack ==
    \A id \in DOMAIN mockBills :
        /\ mockBills[id].status = "paid" => mockBills'[id] = mockBills[id]
        /\ mockBills'[id].status \in {mockBills[id].status, "paid"}

\* p is answered 200 and its bill is paid as the response says
Pays(p) ==
    /\ Len(post'[p].res) = 1
    /\ PaidResponse(post'[p].res[1])
    /\ mockBills[post[p].id].status = "pending"
    /\ mockBills'[post[p].id].status = "paid"
    /\ post'[p].res[1].body.bill = mockBills'[post[p].id]

\* p is answered 400 'Bill has already been paid' and no bill changes
Refuses(p) ==
    /\ Len(post'[p].res) = 1
    /\ RefusedResponse(post'[p].res[1])
    /\ mockBills' = mockBills

\* C30 as claimed: a bill's status only moves from 'pending' to 'paid', and
\* of the valid pay requests on one bill exactly the first handled gets
\* the 200, every later one 400 'Bill has already been paid' with the bill
\* left unchanged.
C30_FirstPays ==
    [][/\ NeverBack
       /\ \A p \in Payments :
              PayStep(p) => IF NotTheFirst(p) THEN Refuses(p) ELSE Pays(p)]_vars

\* C30 as the code has it: the first valid pay request handled on a bill
\* gets the 200 when the bill was pending at load; every later one, and
\* every one on a bill paid at load, gets the 400 with the bill unchanged.
C30_FirstPaysPending ==
    [][/\ NeverBack
       /\ \A p \in Payments :
              PayStep(p) =>
                  IF NotTheFirst(p) \/ BillsAtLoad[post[p].id].status = "paid"
                  THEN Refuses(p) ELSE Pays(p)]_vars

\* bill '2' was paid by one request and a later one, handled after the
\* clock moved on, was refused, the bill still as the first left it
C30_Witness ==
    \E p \in Payments, o \in Payments :
        /\ post[p].id = "2" /\ post[o].id = "2"
        /\ Handled(p) /\ PaidResponse(post[p].res[1])
        /\ Handled(o) /\ RefusedResponse(post[o].res[1])
        /\ mockBills["2"] = post[p].res[1].body.bill
        /\ mockBills["2"].paidAt.ms < now

====
